---- MODULE Spec2Model ----
(***************************************************************************)
(* Model of lambda/ensyu-lambda-function.py: an API Gateway request        *)
(* handler offering CRUD over one DynamoDB table.                          *)
(*                                                                         *)
(* Strings that the code splits, joins or lower-cases (paths, ids) are     *)
(* sequences of one-character strings.  Python values that reach a         *)
(* truthiness or isinstance test are pairs <<tag, chars>>.  The message    *)
(* texts of the source are Japanese in places; the lexer accepts ASCII     *)
(* only, so they are written as ASCII tokens (see MsgMissing, MsgNotStr).  *)
(***************************************************************************)
EXTENDS Integers, Sequences, FiniteSets, TLC

VARIABLES
    store,      \* the table: key value -> item
    pc,         \* "idle" between invocations, "done" when one has answered
    event,      \* the envelope of the invocation
    request,    \* what _parse_event made of it
    response,   \* the response envelope returned
    call,       \* the call the invocation made on the table, if any
    before,     \* the table as the invocation found it
    prev        \* the write the preceding invocation made, if it made one

vars == <<store, pc, event, request, response, call, before, prev>>

\* ------------------------------------------------------------------ values

\* The largest number of items the table holds in the model.
MaxItems == 2

None == <<"None", <<>>>>
Absent == <<"absent", <<>>>>
Str(s) == <<"str", s>>
Num5 == <<"num", <<"5">>>>

\* Python truthiness of a value (`if not item_id`, `item_id or body.get(..)`)
Truthy(v) ==
    CASE v[1] = "str" -> v[2] # <<>>
      [] v[1] = "num" -> v[2] # <<"0">>
      [] OTHER -> FALSE

EmptyMap == [k \in {} |-> None]

\* dict.get(key) with the default None
DictGet(d, k) == IF k \in DOMAIN d THEN d[k] ELSE None

\* Body-level Python values: None, a str holding some text, a dict, a list.
\* A str is described by what its text is: "empty", "invalid" (not JSON),
\* or the JSON text of null / a list / an object (form "null", "list",
\* "dict", with the encoded content in l and d).
PyNone == [t |-> "None", form |-> "", d |-> EmptyMap, l |-> {}]
PyDict(m) == [t |-> "dict", form |-> "", d |-> m, l |-> {}]
PyList(s) == [t |-> "list", form |-> "", d |-> EmptyMap, l |-> s]
PyText(f, m, s) == [t |-> "str", form |-> f, d |-> m, l |-> s]
EmptyText == PyText("empty", EmptyMap, {})
InvalidText == PyText("invalid", EmptyMap, {})

BodyTruthy(b) ==
    CASE b.t = "None" -> FALSE
      [] b.t = "str" -> b.form # "empty"
      [] b.t = "dict" -> DOMAIN b.d # {}
      [] b.t = "list" -> b.l # {}
      [] OTHER -> FALSE

\* json.dumps(v, ensure_ascii=False) of a dict, a list or None
JsonDumps(v) ==
    PyText(IF v.t = "None" THEN "null" ELSE v.t, v.d, v.l)

\* json.loads(text): the decoded value, or a JSONDecodeError
JsonLoads(s) ==
    CASE s.form = "dict" -> [raised |-> FALSE, value |-> PyDict(s.d)]
      [] s.form = "list" -> [raised |-> FALSE, value |-> PyList(s.l)]
      [] s.form = "null" -> [raised |-> FALSE, value |-> PyNone]
      [] OTHER -> [raised |-> TRUE, value |-> PyNone]

\* ------------------------------------------------------------- the response

CORS_HEADERS ==
    [ AccessControlAllowOrigin |-> "*",
      AccessControlAllowMethods |-> "GET,POST,PUT,DELETE,OPTIONS",
      AccessControlAllowHeaders |-> "Content-Type,Authorization",
      ContentType |-> "application/json" ]

\* _response without the json.dumps of a structured body
ResponseNotEncoded(status, body) ==
    [ statusCode |-> status,
      headers |-> CORS_HEADERS,
      body |-> IF body.t = "None" THEN EmptyText ELSE body ]

_response(status, body) ==
    [ statusCode |-> status,
      headers |-> CORS_HEADERS,
      body |-> IF body.t \in {"dict", "list"} THEN JsonDumps(body)
               ELSE IF body.t = "None" THEN EmptyText
               ELSE body ]

Message(tokens) == PyDict([message |-> Str(tokens)])

MsgNotFound == <<"not found">>
MsgInternal == <<"internal error">>
MsgCreated == <<"created">>
MsgUpdated == <<"updated">>
MsgDeleted == <<"deleted">>
MsgUnsupported == <<"unsupported">>
MsgInvalidJson == <<"Invalid JSON in request body">>
\* "POST de wa pasu ni id wo fukumenaide kudasai"
MsgPostWithId == <<"POST: do not include id in the path">>
\* "id ga hitsuyou desu"
MsgIdNeeded == <<"id is needed">>
\* "id hissu"
MsgIdRequired == <<"id required">>

\* --------------------------------------------------------------- the event

\* method.upper()
Upper(m) ==
    CASE m = "get" -> "GET"
      [] m = "post" -> "POST"
      [] m = "put" -> "PUT"
      [] m = "delete" -> "DELETE"
      [] m = "options" -> "OPTIONS"
      [] m = "patch" -> "PATCH"
      [] OTHER -> m

\* str.lower() of one character, and of a string
LowerChar(c) ==
    CASE c = "I" -> "i"
      [] c = "T" -> "t"
      [] c = "E" -> "e"
      [] c = "M" -> "m"
      [] c = "S" -> "s"
      [] c = "A" -> "a"
      [] OTHER -> c

Lower(s) == [i \in 1..Len(s) |-> LowerChar(s[i])]

\* path.split("/"): the pieces between the slashes, empty ones included
RECURSIVE SplitFrom(_, _, _)
SplitFrom(s, i, cur) ==
    IF i > Len(s) THEN <<cur>>
    ELSE IF s[i] = "/" THEN <<cur>> \o SplitFrom(s, i + 1, <<>>)
    ELSE SplitFrom(s, i + 1, Append(cur, s[i]))

Split(s) == SplitFrom(s, 1, <<>>)

\* "/".join(segs)
RECURSIVE Join(_)
Join(segs) ==
    IF Len(segs) = 0 THEN <<>>
    ELSE IF Len(segs) = 1 THEN segs[1]
    ELSE segs[1] \o <<"/">> \o Join(Tail(segs))

Items_lower == <<"i", "t", "e", "m", "s">>

\* An envelope: httpMethod and path of the REST shape, v2method
\* (requestContext.http.method) and rawPath of the HTTP API shape; an
\* absent or null field is the empty string.  pathParameters is None or a
\* dict, body is None, a str or an already structured value.
Envelope(hm, v2m, p, rp, pp, b) ==
    [ httpMethod |-> hm, v2method |-> v2m, path |-> p, rawPath |-> rp,
      pathParameters |-> pp, body |-> b ]

_parse_event(e) ==
    LET method == Upper(IF e.httpMethod # "" THEN e.httpMethod
                        ELSE IF e.v2method # "" THEN e.v2method ELSE "")
        path == IF e.path # <<>> THEN e.path
                ELSE IF e.rawPath # <<>> THEN e.rawPath ELSE <<"/">>
        path_params == IF BodyTruthy(e.pathParameters)
                       THEN e.pathParameters.d ELSE EmptyMap
        bound_id == DictGet(path_params, "id")
        segments == SelectSeq(Split(path), LAMBDA s : s # <<>>)
        item_id == IF Truthy(bound_id) THEN bound_id
                   ELSE IF Len(segments) >= 2
                           /\ Lower(segments[1]) = Items_lower
                        THEN Str(Join(Tail(segments)))
                        ELSE bound_id
        raw_body == IF BodyTruthy(e.body) THEN e.body
                    ELSE PyText("dict", EmptyMap, {})
        loaded == IF raw_body.t = "str" THEN JsonLoads(raw_body)
                  ELSE [raised |-> FALSE, value |-> raw_body]
    IN  [ raised |-> loaded.raised, method |-> method, path |-> path,
          item_id |-> item_id, body |-> loaded.value ]

\* --------------------------------------------------------------- validation

required == <<"id", "description", "date">>

\* ", ".join(names)
RECURSIVE JoinComma(_)
JoinComma(names) ==
    IF Len(names) = 0 THEN <<>>
    ELSE IF Len(names) = 1 THEN <<names[1]>>
    ELSE <<names[1], ", ">> \o JoinComma(Tail(names))

\* "hissu koumoku fusoku: <missing, comma separated>"
MsgMissing(missing) == <<"required fields missing: ">> \o JoinComma(missing)
\* "'<k>' wa mojiretsu de aru hitsuyou ga arimasu"
MsgNotStr(k) == <<"'", k, "' must be a string">>

\* the validator with the type check of the present fields put first
ValidateTypesFirst(payload) ==
    LET missing == SelectSeq(required, LAMBDA k : k \notin DOMAIN payload)
        notstr == SelectSeq(required, LAMBDA k : k \in DOMAIN payload
                                                 /\ payload[k][1] # "str")
    IN  IF notstr # <<>> THEN Str(MsgNotStr(notstr[1]))
        ELSE IF missing # <<>> THEN Str(MsgMissing(missing))
        ELSE None

\* the validator naming the last field that is no string, not the first
ValidateLastNotStr(payload) ==
    LET missing == SelectSeq(required, LAMBDA k : k \notin DOMAIN payload)
        notstr == SelectSeq(required, LAMBDA k : payload[k][1] # "str")
    IN  IF missing # <<>> THEN Str(MsgMissing(missing))
        ELSE IF notstr # <<>> THEN Str(MsgNotStr(notstr[Len(notstr)]))
        ELSE None

_validate_item_payload(payload) ==
    LET missing == SelectSeq(required, LAMBDA k : k \notin DOMAIN payload)
        notstr == SelectSeq(required, LAMBDA k : payload[k][1] # "str")
    IN  IF missing # <<>> THEN Str(MsgMissing(missing))
        ELSE IF notstr # <<>> THEN Str(MsgNotStr(notstr[1]))
        ELSE None

\* ------------------------------------------------------------------ the table

\* The table maps the value of the key attribute "id" to the item, a dict.
Key(item) == item["id"]

get_item(st, k) == IF k \in DOMAIN st THEN PyDict(st[k]) ELSE PyNone

scan(st) == PyList({st[k] : k \in DOMAIN st})

put_item(st, item) ==
    [k \in DOMAIN st \cup {Key(item)} |-> IF k = Key(item) THEN item ELSE st[k]]

\* UpdateExpression "SET #d = :d, #t = :t" on Key {"id": k}; the table
\* creates the item when the key is new.
update_item(st, k, d, t) ==
    LET old == IF k \in DOMAIN st THEN st[k] ELSE [a \in {"id"} |-> k]
        new == [a \in DOMAIN old \cup {"description", "date"} |->
                  IF a = "description" THEN d
                  ELSE IF a = "date" THEN t ELSE old[a]]
    IN  [x \in DOMAIN st \cup {k} |-> IF x = k THEN new ELSE st[x]]

delete_item(st, k) == [x \in DOMAIN st \ {k} |-> st[x]]

\* ---------------------------------------------------------------- the handler

NoCall == [op |-> "none", key |-> None, failed |-> FALSE]
Call(o, k, outcome) == [op |-> o, key |-> k, failed |-> outcome # "ok"]

Result(r, st, c) == [response |-> r, store |-> st, call |-> c]

InternalError == _response(500, Message(MsgInternal))

\* lines 90-109
HandleGet(p, st, outcome) ==
    IF Truthy(p.item_id)
    THEN IF outcome # "ok"
         THEN Result(InternalError, st, Call("get_item", p.item_id, outcome))
         ELSE LET item == get_item(st, p.item_id)
              IN  IF ~BodyTruthy(item)
                  THEN Result(_response(404, Message(MsgNotFound)), st,
                              Call("get_item", p.item_id, outcome))
                  ELSE Result(_response(200, item), st,
                              Call("get_item", p.item_id, outcome))
    ELSE IF outcome # "ok"
         THEN Result(InternalError, st, Call("scan", None, outcome))
         ELSE Result(_response(200, scan(st)), st, Call("scan", None, outcome))

\* lines 111-123
HandlePost(p, st, outcome) ==
    IF Truthy(p.item_id)
    THEN Result(_response(400, Message(MsgPostWithId)), st, NoCall)
    ELSE LET err == _validate_item_payload(p.body.d)
         IN  IF Truthy(err)
             THEN Result(_response(400, Message(err[2])), st, NoCall)
             ELSE IF outcome # "ok"
             THEN Result(InternalError, st,
                         Call("put_item", Key(p.body.d), outcome))
             ELSE Result(_response(201, Message(MsgCreated)),
                         put_item(st, p.body.d),
                         Call("put_item", Key(p.body.d), outcome))

\* PUT writing a whole new item {id, description, date} in place of the old
HandlePutReplace(p, st, outcome) ==
    IF ~Truthy(p.item_id)
    THEN Result(_response(400, Message(MsgIdNeeded)), st, NoCall)
    ELSE IF outcome # "ok"
    THEN Result(InternalError, st, Call("update_item", p.item_id, outcome))
    ELSE Result(_response(200, Message(MsgUpdated)),
                put_item(st, [id |-> p.item_id,
                              description |-> DictGet(p.body.d, "description"),
                              date |-> DictGet(p.body.d, "date")]),
                Call("update_item", p.item_id, outcome))

\* lines 125-141
HandlePut(p, st, outcome) ==
    IF ~Truthy(p.item_id)
    THEN Result(_response(400, Message(MsgIdNeeded)), st, NoCall)
    ELSE IF outcome # "ok"
    THEN Result(InternalError, st, Call("update_item", p.item_id, outcome))
    ELSE Result(_response(200, Message(MsgUpdated)),
                update_item(st, p.item_id, DictGet(p.body.d, "description"),
                            DictGet(p.body.d, "date")),
                Call("update_item", p.item_id, outcome))

\* body.get("id") or item_id
DelIdBodyFirst(p) ==
    IF Truthy(DictGet(p.body.d, "id")) THEN DictGet(p.body.d, "id")
    ELSE p.item_id

\* line 144: item_id or body.get("id")
DelId(p) == IF Truthy(p.item_id) THEN p.item_id ELSE DictGet(p.body.d, "id")

\* DELETE answering 404 when the table holds no item of that key
HandleDeleteStrict(p, st, outcome) ==
    LET del_id == DelId(p)
    IN  IF ~Truthy(del_id)
        THEN Result(_response(400, Message(MsgIdRequired)), st, NoCall)
        ELSE IF outcome # "ok"
        THEN Result(InternalError, st, Call("delete_item", del_id, outcome))
        ELSE IF del_id \notin DOMAIN st
        THEN Result(_response(404, Message(MsgNotFound)), st,
                    Call("delete_item", del_id, outcome))
        ELSE Result(_response(200, Message(MsgDeleted)),
                    delete_item(st, del_id),
                    Call("delete_item", del_id, outcome))

\* lines 143-152
HandleDelete(p, st, outcome) ==
    LET del_id == DelId(p)
    IN  IF ~Truthy(del_id)
        THEN Result(_response(400, Message(MsgIdRequired)), st, NoCall)
        ELSE IF outcome # "ok"
        THEN Result(InternalError, st, Call("delete_item", del_id, outcome))
        ELSE Result(_response(200, Message(MsgDeleted)),
                    delete_item(st, del_id),
                    Call("delete_item", del_id, outcome))

\* lines 80-161.  line 83 evaluates list(body.keys()): a body that is not a
\* dict raises AttributeError there, which line 159 turns into a 500.
\* the dispatch turning an unsupported method away before it looks at how
\* the parsing of the body went
DispatchMethodFirst(p, st, outcome) ==
    IF p.method \notin {"OPTIONS", "GET", "POST", "PUT", "DELETE"}
    THEN Result(_response(405, Message(MsgUnsupported)), st, NoCall)
    ELSE IF p.raised
    THEN Result(_response(400, Message(MsgInvalidJson)), st, NoCall)
    ELSE IF p.body.t # "dict"
    THEN Result(InternalError, st, NoCall)
    ELSE CASE p.method = "OPTIONS" ->
                Result(_response(204, EmptyText), st, NoCall)
           [] p.method = "GET" -> HandleGet(p, st, outcome)
           [] p.method = "POST" -> HandlePost(p, st, outcome)
           [] p.method = "PUT" -> HandlePut(p, st, outcome)
           [] OTHER -> HandleDelete(p, st, outcome)

Dispatch(p, st, outcome) ==
    IF p.raised
    THEN Result(_response(400, Message(MsgInvalidJson)), st, NoCall)
    ELSE IF p.body.t # "dict"
    THEN Result(InternalError, st, NoCall)
    ELSE CASE p.method = "OPTIONS" ->
                Result(_response(204, EmptyText), st, NoCall)
           [] p.method = "GET" -> HandleGet(p, st, outcome)
           [] p.method = "POST" -> HandlePost(p, st, outcome)
           [] p.method = "PUT" -> HandlePut(p, st, outcome)
           [] p.method = "DELETE" -> HandleDelete(p, st, outcome)
           [] OTHER -> Result(_response(405, Message(MsgUnsupported)),
                              st, NoCall)

lambda_handler(e, st, outcome) == Dispatch(_parse_event(e), st, outcome)

NoRequest ==
    [ raised |-> FALSE, method |-> "", path |-> <<>>, item_id |-> None,
      body |-> PyNone ]

\* ------------------------------------------------------------------- inputs

Ids == { <<>>, <<"a">>, <<"a", "/">> }

CollectionPath == <<"/", "I", "t", "e", "m", "s">>
PathOf(i) == CollectionPath \o <<"/">> \o i

Prefixes == { CollectionPath, <<"/", "i", "t", "e", "m", "s">>, <<"/", "x">> }

\* "" (no path), the collection paths, and the paths of every id
Paths == {<<>>} \cup
         { pre \o tail : pre \in Prefixes,
                         tail \in {<<>>} \cup { <<"/">> \o i : i \in Ids } }

FewPaths == { <<>>, CollectionPath, PathOf(<<"a">>), <<"/", "x", "/", "a">> }

PathParams == {PyNone} \cup { PyDict([id |-> Str(i)]) : i \in Ids }

FewPathParams == { PyNone, PyDict([id |-> Str(<<"a">>)]) }

\* a dict with the attributes that are not Absent
Dict(i, d, t, x) ==
    LET all == [id |-> i, description |-> d, date |-> t, extra |-> x]
    IN  [k \in {a \in DOMAIN all : all[a] # Absent} |-> all[k]]

NullText == PyText("null", EmptyMap, {})

\* bodies that make the empty mapping (missing/None, "", "{}", {}), and the
\* string that is no JSON
ParsedBodies ==
    { PyNone, EmptyText, PyText("dict", EmptyMap, {}), PyDict(EmptyMap),
      InvalidText }

\* ... and the text "null"
PlainBodies == ParsedBodies \cup {NullText}

IdValues == {Absent, Num5} \cup { Str(i) : i \in Ids }

PostPayloads ==
    { Dict(i, d, t, Str(<<"e">>)) :
        i \in IdValues, d \in {Absent, Str(<<"x">>), Num5},
        t \in {Absent, Str(<<"x">>), Num5} }

PutPayloads ==
    { Dict(Absent, Absent, Absent, Absent),
      Dict(Str(<<"a", "/">>), Str(<<"y">>), Absent, Absent) }

DeletePayloads == { Dict(i, Absent, Absent, Absent) : i \in IdValues }

\* a payload as the JSON text of the body, or as an already structured body
Bodies(payloads) ==
    { PyText("dict", m, {}) : m \in payloads } \cup
    { PyDict(m) : m \in payloads }

\* the REST shape with an upper-case method; the HTTP API shape with the
\* method in lower case
Rest(M, p, pp, b) == Envelope(M, "", p, <<>>, pp, b)
Http(m, p, pp, b) == Envelope("", m, <<>>, p, pp, b)

Events(M, m, paths, pps, bodies) ==
    { Rest(M, p, pp, b) : p \in paths, pp \in pps, b \in bodies } \cup
    { Http(m, p, PyNone, PyNone) : p \in paths }

OptionsEvents ==
    Events("OPTIONS", "options", {CollectionPath}, {PyNone}, PlainBodies)

GetEvents ==
    Events("GET", "get", Paths, PathParams, {PyNone})
    \cup Events("GET", "get", FewPaths, FewPathParams, {NullText})

PostEvents ==
    Events("POST", "post", {CollectionPath}, {PyNone}, Bodies(PostPayloads))
    \cup Events("POST", "post", FewPaths, FewPathParams,
                PlainBodies \cup Bodies(PutPayloads))

PutEvents ==
    Events("PUT", "put", Paths, PathParams,
           { PyText("dict", m, {}) : m \in PutPayloads })
    \cup Events("PUT", "put", FewPaths, FewPathParams,
                {NullText} \cup { PyDict(m) : m \in PutPayloads })

DeleteEvents ==
    Events("DELETE", "delete", FewPaths \cup {PathOf(<<"a", "/">>)},
           PathParams,
           {PyNone} \cup { PyText("dict", m, {}) : m \in DeletePayloads })
    \cup Events("DELETE", "delete", FewPaths, FewPathParams,
                {NullText} \cup { PyDict(m) : m \in DeletePayloads })

OtherEvents ==
    Events("PATCH", "patch", FewPaths, FewPathParams, ParsedBodies)
    \cup Events("", "", {CollectionPath}, {PyNone}, ParsedBodies)

Outcomes == {"ok", "ClientError"}

\* ------------------------------------------------------------ state machine

NoEvent == Envelope("", "", <<>>, <<>>, PyNone, PyNone)
NoResponse == [statusCode |-> 0, headers |-> CORS_HEADERS, body |-> EmptyText]
NoPrev == [op |-> "none", item |-> EmptyMap]

Init ==
    /\ store = EmptyMap
    /\ pc = "idle"
    /\ event = NoEvent
    /\ response = NoResponse
    /\ request = NoRequest
    /\ call = NoCall
    /\ before = EmptyMap
    /\ prev = NoPrev

\* One invocation of lambda_handler on the envelope e, the table answering
\* its call (if one is made) with the given outcome.
Invoke(e, outcome) ==
    /\ \E r \in {lambda_handler(e, store, outcome)} :
        /\ Cardinality(DOMAIN r.store) <= MaxItems
        /\ (outcome = "ok" \/ r.call.op # "none")
        /\ pc' = "done"
        /\ event' = e
        /\ request' = _parse_event(e)
        /\ response' = r.response
        /\ store' = r.store
        /\ call' = r.call
        /\ before' = store
        /\ UNCHANGED prev

Options ==
    /\ pc = "idle"
    /\ \E e \in OptionsEvents, o \in Outcomes : Invoke(e, o)

Get ==
    /\ pc = "idle"
    /\ \E e \in GetEvents, o \in Outcomes : Invoke(e, o)

Post ==
    /\ pc = "idle"
    /\ \E e \in PostEvents, o \in Outcomes : Invoke(e, o)

Put ==
    /\ pc = "idle"
    /\ \E e \in PutEvents, o \in Outcomes : Invoke(e, o)

Delete ==
    /\ pc = "idle"
    /\ \E e \in DeleteEvents, o \in Outcomes : Invoke(e, o)

Other ==
    /\ pc = "idle"
    /\ \E e \in OtherEvents, o \in Outcomes : Invoke(e, o)

\* The response goes back to the gateway; nothing of the invocation stays
\* but the table.  prev remembers a write the client has seen succeed.
Return ==
    /\ pc = "done"
    /\ pc' = "idle"
    /\ prev' = IF call.op \in {"put_item", "delete_item"} /\ ~call.failed
               THEN [op |-> call.op,
                     item |-> IF call.op = "put_item"
                              THEN request.body.d
                              ELSE [a \in {"id"} |-> call.key]]
               ELSE NoPrev
    /\ event' = NoEvent
    /\ request' = NoRequest
    /\ response' = NoResponse
    /\ call' = NoCall
    /\ before' = store
    /\ UNCHANGED store

Next == Options \/ Get \/ Post \/ Put \/ Delete \/ Other \/ Return

Spec == Init /\ [][Next]_vars

\* ------------------------------------------------------------------- claims

\* The canonical request of the invocation that has just answered, and of
\* the one a step starts.
Req == request
Done == pc = "done"

Status(r) == r.statusCode
IsMessage(r, tokens) ==
    /\ r.body.t = "str"
    /\ r.body.form = "dict"
    /\ r.body.d = [message |-> Str(tokens)]

ErrorStatuses == {400, 404, 405, 500}
AllStatuses == {200, 201, 204} \cup ErrorStatuses

\* C1: every invocation, whatever the envelope and whatever the table
\* answers, ends in a response whose statusCode is one of 200, 201, 204,
\* 400, 404, 405, 500, whose headers are the four fixed entries and whose
\* body is a string; an error response's body is the JSON text of an object
\* with the single key message, a string.
C1_AlwaysResponds ==
    pc = "done" =>
        /\ Status(response) \in AllStatuses
        /\ response.headers = CORS_HEADERS
        /\ response.body.t = "str"
        /\ Status(response) \in ErrorStatuses =>
              /\ response.body.form = "dict"
              /\ DOMAIN response.body.d = {"message"}
              /\ response.body.d["message"][1] = "str"

\* a failed table call, and a body that is no mapping, both answered by 500
C1_Witness ==
    /\ pc = "done"
    /\ call.failed
    /\ Status(response) = 500
    /\ IsMessage(response, MsgInternal)

\* The names of the required fields a payload lacks, in declaration order,
\* and the text that lists them.
Lacks(payload) ==
    (IF "id" \in DOMAIN payload THEN <<>> ELSE <<"id">>)
    \o (IF "description" \in DOMAIN payload THEN <<>> ELSE <<"description">>)
    \o (IF "date" \in DOMAIN payload THEN <<>> ELSE <<"date">>)

Listed(names) ==
    [i \in 1..(2 * Len(names) - 1) |->
        IF i % 2 = 1 THEN names[(i + 1) \div 2] ELSE ", "]

\* a create request: POST, no identifier from the path, a mapping as payload
IsCreate(r) ==
    /\ ~r.raised
    /\ r.body.t = "dict"
    /\ r.method = "POST"
    /\ ~Truthy(r.item_id)

\* C6: a create request whose payload lacks required fields is answered by
\* 400 with the message naming exactly the lacking fields, comma separated,
\* in the order id, description, date, also when a present field is not a
\* string; the table is not called and keeps its content.
C6_MissingFields ==
    (Done /\ IsCreate(Req) /\ Lacks(Req.body.d) # <<>>) =>
        /\ Status(response) = 400
        /\ IsMessage(response, <<"required fields missing: ">>
                                 \o Listed(Lacks(Req.body.d)))
        /\ call = NoCall
        /\ store = before

\* two fields lacking and the present one not a string
C6_Witness ==
    /\ pc = "done"
    /\ IsCreate(Req)
    /\ Lacks(Req.body.d) = <<"id", "date">>
    /\ Req.body.d["description"] = Num5
    /\ Status(response) = 400

\* the first required field, in declaration order, whose value is no string
FirstNotStr(payload) ==
    IF payload["id"][1] # "str" THEN "id"
    ELSE IF payload["description"][1] # "str" THEN "description"
    ELSE IF payload["date"][1] # "str" THEN "date"
    ELSE "none"

\* C7: a create request whose payload has the three required fields, one of
\* them at least not a string, is answered by 400 with the message naming
\* the first such field in the order id, description, date; the table is not
\* called and keeps its content.
C7_NotString ==
    (/\ Done
     /\ IsCreate(Req)
     /\ Lacks(Req.body.d) = <<>>
     /\ FirstNotStr(Req.body.d) # "none") =>
        /\ Status(response) = 400
        /\ IsMessage(response,
                     <<"'", FirstNotStr(Req.body.d), "' must be a string">>)
        /\ call = NoCall
        /\ store = before

\* description and date both not strings: description is the one named
C7_Witness ==
    /\ pc = "done"
    /\ IsCreate(Req)
    /\ Lacks(Req.body.d) = <<>>
    /\ Req.body.d["id"][1] = "str"
    /\ Req.body.d["description"] = Num5
    /\ Req.body.d["date"] = Num5
    /\ IsMessage(response, <<"'", "description", "' must be a string">>)

IsValidPayload(payload) ==
    Lacks(payload) = <<>> /\ FirstNotStr(payload) = "none"

\* C2: a POST of a valid payload to the collection path is answered by 201
\* (the table not failing), and the GET of /Items/<id> that follows it is
\* answered by 200 with an item whose id, description and date are those of
\* the payload.
C2_RoundTrip ==
    /\ (Done /\ IsCreate(Req) /\ IsValidPayload(Req.body.d) /\ ~call.failed) =>
            Status(response) = 201 /\ IsMessage(response, MsgCreated)
    /\ (/\ Done
        /\ prev.op = "put_item"
        /\ event = Rest("GET", PathOf(prev.item["id"][2]), PyNone, PyNone)
        /\ ~call.failed) =>
            /\ Status(response) = 200
            /\ response.body.form = "dict"
            /\ \A k \in {"id", "description", "date"} :
                  response.body.d[k] = prev.item[k]

\* a request with a mapping as payload
HasPayload(r) == ~r.raised /\ r.body.t = "dict"

C4_DeleteIdempotent ==
    /\ (/\ Done
        /\ HasPayload(Req)
        /\ Req.method = "DELETE"
        /\ (Truthy(Req.item_id) \/ Truthy(DictGet(Req.body.d, "id")))) =>
            call.op = "delete_item"
    /\ (Done /\ call.op = "delete_item" /\ ~call.failed) =>
            /\ Status(response) = 200
            /\ IsMessage(response, MsgDeleted)
            /\ call.key \notin DOMAIN store
            /\ call.key \notin DOMAIN before => store = before
    /\ (/\ Done
        /\ prev.op = "delete_item"
        /\ HasPayload(Req)
        /\ Req.method = "GET"
        /\ Req.item_id = prev.item["id"]
        /\ ~call.failed) =>
            Status(response) = 404 /\ IsMessage(response, MsgNotFound)
    /\ (/\ Done
        /\ prev.op = "delete_item"
        /\ call.op = "delete_item"
        /\ call.key = prev.item["id"]
        /\ ~call.failed) =>
            /\ Status(response) = 200
            /\ IsMessage(response, MsgDeleted)
            /\ store = before

\* the DELETE of an identifier repeated, while the table holds another item
C4_Witness ==
    /\ Done
    /\ prev.op = "delete_item"
    /\ call.op = "delete_item"
    /\ call.key = prev.item["id"]
    /\ ~call.failed
    /\ Status(response) = 200
    /\ store # EmptyMap

\* C5: DELETE takes its identifier from the path (binding or segments) when
\* there is one and from the payload's id only otherwise; with both present
\* the path's is the one deleted and every other item, the one the payload
\* names among them, stays; with neither the answer is 400, the table is not
\* called and keeps its content.
C5_DeleteTarget ==
    (Done /\ HasPayload(Req) /\ Req.method = "DELETE") =>
        LET pid == DictGet(Req.body.d, "id")
            target == IF Truthy(Req.item_id) THEN Req.item_id ELSE pid
        IN  IF Truthy(Req.item_id) \/ Truthy(pid)
            THEN /\ call.op = "delete_item"
                 /\ call.key = target
                 /\ \A k \in DOMAIN before \ {target} :
                       k \in DOMAIN store /\ store[k] = before[k]
                 /\ ~call.failed => target \notin DOMAIN store
            ELSE /\ Status(response) = 400
                 /\ IsMessage(response, MsgIdRequired)
                 /\ call = NoCall
                 /\ store = before

\* the path names one item and the payload another, both in the table
C5_Witness ==
    /\ Done
    /\ Req.method = "DELETE"
    /\ event.path = PathOf(<<"a">>)
    /\ event.pathParameters = PyNone
    /\ HasPayload(Req)
    /\ DictGet(Req.body.d, "id") = Str(<<"a", "/">>)
    /\ DOMAIN before = {Str(<<"a">>), Str(<<"a", "/">>)}
    /\ DOMAIN store = {Str(<<"a", "/">>)}
    /\ Status(response) = 200

\* C8: a POST with an identifier in the path (binding or segments) is
\* answered by 400 whatever the body, and the table keeps its content.
C8_PostWithId ==
    (Done /\ Req.method = "POST" /\ Truthy(Req.item_id)) =>
        /\ Status(response) = 400
        /\ call = NoCall
        /\ store = before

Supported == {"GET", "POST", "PUT", "DELETE", "OPTIONS"}

\* C9 as stated: a request whose upper-cased method is none of GET, POST,
\* PUT, DELETE, OPTIONS is answered by 405 "unsupported" whatever its path,
\* identifier and body, without a call on the table.
C9_Unsupported ==
    (Done /\ Req.method \notin Supported) =>
        /\ Status(response) = 405
        /\ IsMessage(response, MsgUnsupported)
        /\ call = NoCall

\* the bodies that make a mapping: none, "", the text of an object, a dict
IsMappingBody(b) ==
    \/ ~BodyTruthy(b)
    \/ b.t = "str" /\ b.form = "dict"
    \/ b.t = "dict"

\* C9 as amended: a request whose upper-cased method is none of GET, POST,
\* PUT, DELETE, OPTIONS is answered by 405 "unsupported", whatever its path
\* and identifier, when its body makes a mapping, and by 400 "Invalid JSON
\* in request body" when its body is a string that is no JSON; in both cases
\* the table is not called and keeps its content.
C9_UnsupportedParsed ==
    (Done /\ Req.method \notin Supported) =>
        /\ IsMappingBody(event.body) =>
              /\ Status(response) = 405
              /\ IsMessage(response, MsgUnsupported)
        /\ event.body = InvalidText =>
              /\ Status(response) = 400
              /\ IsMessage(response, MsgInvalidJson)
        /\ call = NoCall
        /\ store = before

\* PATCH on the path of an item, with an object as body
C9_Witness ==
    /\ Done
    /\ event.httpMethod = "PATCH"
    /\ Truthy(Req.item_id)
    /\ event.body = PyText("dict", EmptyMap, {})
    /\ Status(response) = 405

\* C10: a body that is missing, empty, null or the text "null" makes the
\* empty mapping, and the payload _parse_event hands on is a mapping always.
C10_BodyIsMapping ==
    /\ (Done /\ event.body \in {PyNone, EmptyText, NullText}) =>
            ~Req.raised /\ Req.body = PyDict(EmptyMap)
    /\ (Done /\ ~Req.raised) => Req.body.t = "dict"

====
